---- MODULE Spec2Model ----
(***************************************************************************)
(* ChessBI ingestion: one run of run_chesscom_ingest (chesscom_ingest.py)  *)
(* driving ChessComClient (chesscom_client.py) and the ETag cache          *)
(* (etag_cache.py) against an unreliable remote service.                   *)
(*                                                                         *)
(* Python strings that the code inspects (URLs, month keys, the since      *)
(* filter) are sequences of one-character strings; opaque strings (ETags)  *)
(* are TLA+ strings.  The remote service, the file system and the caller's *)
(* arguments are the environment: their values are drawn from small sets.  *)
(***************************************************************************)
EXTENDS Integers, Sequences, FiniteSets, TLC

\* ---- bounds of the model -------------------------------------------------
MaxArchives == 2        \* longest archive list the index endpoint returns
MaxRetries == 2         \* largest max_retries the client is constructed with
MaxBackoffRetries == 12 \* max_retries of the call whose backoff is followed
MaxBaseSeconds == 3     \* largest backoff_base_seconds, in whole seconds
MaxStrLen == 2          \* longest URL or ETag of a mapping given to save_etags

\* ---- Python values -------------------------------------------------------
\* Python's None where an opaque string is optional (an ETag).
None == "<None>"

\* Python's None where an inspected string is optional: no string has a
\* character of more than one letter, so this is no string.
NoneStr == <<None>>

\* bool(s) of an Optional[str] holding an opaque string.
Truthy(s) == s # None /\ s # ""

\* bool(s) of an Optional[str] holding an inspected string.
TruthyStr(s) == s # NoneStr /\ s # <<>>

Digits == {"0", "1", "2", "3", "4", "5", "6", "7", "8", "9"}

\* ord(c) for the characters that occur in the modelled strings.
Ord(c) ==
    CASE c = "+" -> 43
      [] c = "-" -> 45
      [] c = "/" -> 47
      [] c \in Digits -> 48 + (CHOOSE d \in 0..9 :
                                 c = <<"0","1","2","3","4","5","6","7","8","9">>[d + 1])
      [] c = "W" -> 87
      [] c = "d" -> 100
      [] c = "e" -> 101
      [] c = "g" -> 103
      [] c = "x" -> 120

\* Python's s < t on strings: the first differing character decides, a
\* proper prefix is smaller.
RECURSIVE StrLess(_, _)
StrLess(s, t) ==
    IF t = <<>> THEN FALSE
    ELSE IF s = <<>> THEN TRUE
    ELSE IF Head(s) = Head(t) THEN StrLess(Tail(s), Tail(t))
    ELSE Ord(Head(s)) < Ord(Head(t))

\* Python's s >= t on strings.
StrGeq(s, t) == ~StrLess(s, t)

\* list.sort() on a list of strings: ascending insertion sort.
RECURSIVE SortInsert(_, _)
SortInsert(x, sorted) ==
    IF sorted = <<>> THEN <<x>>
    ELSE IF StrLess(x, Head(sorted)) THEN <<x>> \o sorted
    ELSE <<Head(sorted)>> \o SortInsert(x, Tail(sorted))

\* The list left in the order the index endpoint gave.
SortSkipped(list) == list

RECURSIVE Sort(_)
Sort(list) ==
    IF list = <<>> THEN <<>>
    ELSE SortInsert(Head(list), Sort(Tail(list)))

\* list[start:] with Python's slice rules: a negative start counts from the
\* end, and both are clamped to the list.  -0 is 0, so list[-0:] is list[0:].
SliceFrom(list, start) ==
    LET n == Len(list)
        first == IF start < 0 THEN (IF n + start < 0 THEN 0 ELSE n + start)
                 ELSE (IF start > n THEN n ELSE start)
    IN  SubSeq(list, first + 1, n)

\* int(s) for a string of an optional sign and decimal digits: ok tells
\* whether it parses (ValueError otherwise), value is the integer.
RECURSIVE DigitsValue(_, _)
DigitsValue(s, acc) ==
    IF s = <<>> THEN acc
    ELSE DigitsValue(Tail(s), 10 * acc + (Ord(Head(s)) - Ord("0")))

PyInt(s) ==
    LET signed == s # <<>> /\ Head(s) \in {"-", "+"}
        digits == IF signed THEN Tail(s) ELSE s
        ok == digits # <<>> /\ \A i \in DOMAIN digits : digits[i] \in Digits
    IN  [ok |-> ok,
         value |-> IF ~ok THEN 0
                   ELSE IF signed /\ Head(s) = "-" THEN 0 - DigitsValue(digits, 0)
                   ELSE DigitsValue(digits, 0)]

\* Durations are counted in eighths of a second, which keeps the jittered
\* backoff of a whole number of seconds an integer.
Seconds(n) == 8 * n

\* A local that has not been assigned.
Unset == 0 - 1

\* ---- chesscom_ingest.py: helpers ----------------------------------------
\* re.search(r'/(\d{4})/(\d{2})$', url): "YYYY-MM" or None.
_extract_year_month(url) ==
    LET n == Len(url) IN
    IF /\ n >= 8
       /\ url[n - 7] = "/"
       /\ \A i \in (n - 6)..(n - 3) : url[i] \in Digits
       /\ url[n - 2] = "/"
       /\ \A i \in (n - 1)..n : url[i] \in Digits
    THEN SubSeq(url, n - 6, n - 3) \o <<"-">> \o SubSeq(url, n - 1, n)
    ELSE NoneStr

\* _get_output_path with the month left out of the file name.
OutputPathWithoutMonth(year_month) ==
    <<"out_dir", "chesscom", "username", "games", ".json">>

\* os.path.join(out_dir, "chesscom", username, f"{year_month}.json"); out_dir
\* and username are fixed for the run.
_get_output_path(year_month) == <<"out_dir", "chesscom", "username", year_month, ".json">>

\* The since loop with an exclusive bound: year_month > since.
RECURSIVE SinceFilterExclusive(_, _)
SinceFilterExclusive(urls, since_) ==
    IF urls = <<>> THEN <<>>
    ELSE LET year_month == _extract_year_month(Head(urls))
             rest == SinceFilterExclusive(Tail(urls), since_)
         IN  IF TruthyStr(year_month) /\ StrLess(since_, year_month)
             THEN <<Head(urls)>> \o rest
             ELSE rest

\* The since loop of run_chesscom_ingest (lines 66-71).
RECURSIVE SinceFilter(_, _)
SinceFilter(urls, since_) ==
    IF urls = <<>> THEN <<>>
    ELSE LET year_month == _extract_year_month(Head(urls))
             rest == SinceFilter(Tail(urls), since_)
         IN  IF TruthyStr(year_month) /\ StrGeq(year_month, since_)
             THEN <<Head(urls)>> \o rest
             ELSE rest

\* Select last max_months (lines 75-76).
SelectWindow(urls, max_months_) ==
    IF Len(urls) > max_months_ THEN SliceFrom(urls, 0 - max_months_) ELSE urls

\* [_extract_year_month(url) for url in archive_urls] (line 78).
MonthsOf(urls) == [i \in 1..Len(urls) |-> _extract_year_month(urls[i])]

\* ---- etag_cache.py -------------------------------------------------------
\* Content of the file at cache_path.
MissingFile == [shape |-> "missing", map |-> <<>>]
InvalidFile == [shape |-> "invalid", map |-> <<>>]
ArrayFile == [shape |-> "array", map |-> <<>>]
ObjectFile(m) == [shape |-> "object", map |-> m]

load_etags(file) == IF file.shape = "object" THEN file.map ELSE <<>>

\* save_etags that returns early when there is nothing to save.
save_etags_unless_empty(file, etags_) ==
    IF etags_ = <<>> THEN file ELSE ObjectFile(etags_)

\* json.dump(etags, f) on a file opened with "w": the mapping replaces the
\* file's content.
save_etags(file, etags_) == ObjectFile(etags_)

\* get_etag that finds nothing.
get_etag_forgets(etags_, url) == None

get_etag(etags_, url) == IF url \in DOMAIN etags_ THEN etags_[url] ELSE None

\* set_etag that files every ETag under the URL of 2023/11.
set_etag_misfiled(etags_, url, etag) ==
    [u \in DOMAIN etags_ \cup {<<"g", "/", "2", "0", "2", "3", "/", "1", "1">>} |->
        IF u = <<"g", "/", "2", "0", "2", "3", "/", "1", "1">> THEN etag ELSE etags_[u]]

set_etag(etags_, url, etag) ==
    [u \in DOMAIN etags_ \cup {url} |-> IF u = url THEN etag ELSE etags_[u]]

\* ---- etag_cache.py: the text of the file ---------------------------------
\* ObjectFile(m) above stands for a file that json.load reads as the dict m.
\* Below, the file is the text json.dump writes and json.load parses: a JSON
\* object is the sequence of its members, each a key literal and a value
\* that is a string literal or something else (a number).

\* json.dump without the escaping of quotes and backslashes.
EscapeNothing(str) == str

\* The body of the JSON string literal json.dump writes for str.
RECURSIVE Escape(_)
Escape(str) ==
    IF str = <<>> THEN <<>>
    ELSE (IF Head(str) \in {"\"", "\\"} THEN <<"\\", Head(str)>> ELSE <<Head(str)>>)
         \o Escape(Tail(str))

\* Whether json.load accepts lit as the body of a string literal.
RECURSIVE ValidLiteral(_)
ValidLiteral(lit) ==
    IF lit = <<>> THEN TRUE
    ELSE IF Head(lit) = "\\"
         THEN /\ Len(lit) >= 2
              /\ lit[2] \in {"\"", "\\"}
              /\ ValidLiteral(Tail(Tail(lit)))
         ELSE Head(lit) # "\"" /\ ValidLiteral(Tail(lit))

\* The string json.load makes of the body of a valid string literal.
RECURSIVE Unescape(_)
Unescape(lit) ==
    IF lit = <<>> THEN <<>>
    ELSE IF Head(lit) = "\\" THEN <<lit[2]>> \o Unescape(Tail(Tail(lit)))
    ELSE <<Head(lit)>> \o Unescape(Tail(lit))

\* A value of a loaded dict that is no str.
NotAString == <<"<int>">>

MissingText == [shape |-> "missing", members |-> <<>>]
UndecodableText == [shape |-> "undecodable", members |-> <<>>]
InvalidText == [shape |-> "invalid", members |-> <<>>]
ArrayText == [shape |-> "array", members |-> <<>>]
Member(key, kind, value) == [key |-> key, kind |-> kind, value |-> value]

\* json.dump(etags, f, indent=2) for a dict of str to str whose keys are, in
\* insertion order, keys.
json_dump(etags_, keys) ==
    [shape |-> "object",
     members |-> [i \in 1..Len(keys) |->
                    Member(Escape(keys[i]), "string", Escape(etags_[keys[i]]))]]

\* json.load(f): ok is FALSE for JSONDecodeError; is_dict tells whether the
\* value is a dict, and dict is that dict (a repeated key keeps its last value).
json_load(text) ==
    LET ms == text.members
        valid == /\ text.shape \in {"array", "object"}
                 /\ \A i \in DOMAIN ms :
                       /\ ValidLiteral(ms[i].key)
                       /\ ms[i].kind = "string" => ValidLiteral(ms[i].value)
        last(k) == CHOOSE i \in DOMAIN ms :
                     /\ Unescape(ms[i].key) = k
                     /\ \A j \in DOMAIN ms : Unescape(ms[j].key) = k => j <= i
        value(i) == IF ms[i].kind = "string" THEN Unescape(ms[i].value) ELSE NotAString
    IN  [ok |-> valid,
         is_dict |-> valid /\ text.shape = "object",
         dict |-> IF valid /\ text.shape = "object"
                  THEN [k \in {Unescape(ms[i].key) : i \in DOMAIN ms} |-> value(last(k))]
                  ELSE <<>>]

\* Strings of the mappings: a plain character, a quote, a backslash.
Alphabet == {"a", "\"", "\\"}
Strings == UNION {[1..n -> Alphabet] : n \in 0..MaxStrLen}
CacheKeys == {<<"u">>, <<"\"">>}
StringMaps == UNION {[ks -> Strings] : ks \in SUBSET CacheKeys}
KeyOrders(etags_) ==
    {ks \in [1..Cardinality(DOMAIN etags_) -> DOMAIN etags_] :
        \A i, j \in DOMAIN ks : ks[i] = ks[j] => i = j}

\* Texts the cache file holds before anything is saved: no file, bytes that
\* are no UTF-8, text that is no JSON, an array, an empty object, an object
\* of strings, an object with a number as value.
CacheTexts ==
    {MissingText, UndecodableText, InvalidText, ArrayText,
     json_dump(<<>>, <<>>),
     json_dump([k \in {<<"w">>} |-> <<"a">>], <<(<<"w">>)>>),
     [shape |-> "object", members |-> <<Member(<<"u">>, "number", <<"1">>)>>]}

\* ---- the environment -----------------------------------------------------
UA == <<"g", "/", "2", "0", "2", "3", "/", "1", "1">>
UB == <<"g", "/", "2", "0", "2", "3", "/", "1", "2">>
UX == <<"g", "/", "2", "0", "2", "3", "/", "1", "x">>
Urls == {UA, UB, UX}

SinceB == <<"2", "0", "2", "3", "-", "1", "2">>
SinceValues == {NoneStr, SinceB}

ArchiveLists == UNION {[1..n -> Urls] : n \in 0..MaxArchives}

CacheFiles == {MissingFile, InvalidFile, ObjectFile(<<>>),
               ObjectFile([u \in {UB} |-> "v1"]), ObjectFile([u \in {UB} |-> ""])}

\* Lengths of the "games" list of a month's body.
GameCounts == {3}

\* A response body: JSON that does not parse, a JSON array, or a JSON object
\* with or without the fields the code reads.
NoBody == [shape |-> "none", archives |-> "absent", list |-> <<>>, games |-> -1]
InvalidBody == [NoBody EXCEPT !.shape = "invalid"]
ArrayBody == [NoBody EXCEPT !.shape = "array"]
ObjectBody == [NoBody EXCEPT !.shape = "object"]
IndexBodies ==
    {InvalidBody, ArrayBody, ObjectBody, [ObjectBody EXCEPT !.archives = "notlist"]}
    \cup {[ObjectBody EXCEPT !.archives = "list", !.list = l] : l \in ArchiveLists}
MonthBodies ==
    {InvalidBody, ArrayBody, ObjectBody}
    \cup {[ObjectBody EXCEPT !.games = n] : n \in GameCounts}

\* The API as a server with a state: the list its index returns and the
\* ETag of each month; every month has three games.
NoServer == [archives |-> <<>>, etag |-> <<>>]
ServerValidators == {"v1", "v2"}
ChangedValidator == "v3"
Servers ==
    {[archives |-> l, etag |-> e] : l \in ArchiveLists, e \in [{UA, UB} -> ServerValidators]}

\* What is kept of a finished run.
NoFirstRun ==
    [months_fetched |-> <<>>, months_unchanged |-> <<>>, etags |-> <<>>,
     cacheFile |-> MissingFile, files |-> <<>>, server |-> NoServer]

\* What one session.request call ends in: a response or an exception.
NoResponse ==
    [exc |-> "None", status |-> 0, etag |-> None, retry_after |-> NoneStr,
     body |-> NoBody]
Exceptions == {"Timeout", "ConnectionError", "RequestException"}
Statuses == {100, 200, 201, 301, 304, 404, 429, 500, 503}

\* Values of the Retry-After header of a 429: absent, a number of seconds, a
\* negative number, and text that is no number (an HTTP date).
RetryAfterValues == {NoneStr, <<"2">>, <<"-", "1">>, <<"W", "e", "d">>}

\* Values of random.random(), in quarters: 0, 1/2 and 3/4.
RandomQuarters == {0, 2, 3}

Outcomes(bodies) ==
    {[NoResponse EXCEPT !.exc = e] : e \in Exceptions}
    \cup {[NoResponse EXCEPT !.status = s] : s \in Statuses \ {200, 201, 304, 429}}
    \cup {[NoResponse EXCEPT !.status = 429, !.retry_after = a] : a \in RetryAfterValues}
    \cup {[NoResponse EXCEPT !.status = 304, !.etag = t] : t \in {None, "v2"}}
    \cup {[NoResponse EXCEPT !.status = s, !.etag = t, !.body = b] :
            s \in {200, 201}, t \in {None, "v2"}, b \in bodies}

\* ---- chesscom_client.py: exceptions --------------------------------------
NoError == [type |-> "None", status |-> 0, msg |-> ""]
ChessComAPIError(status_code, message) ==
    [type |-> "ChessComAPIError", status |-> status_code, msg |-> message]
ChessComClientError(message) ==
    [type |-> "ChessComClientError", status |-> 0, msg |-> message]
BuiltinError(type_) == [type |-> type_, status |-> 0, msg |-> ""]

VARIABLES
    pc,               \* where the run is
    max_months,       \* argument of run_chesscom_ingest
    since,            \* argument of run_chesscom_ingest
    max_retries,      \* ChessComClient.max_retries
    backoff_base_seconds, \* ChessComClient.backoff_base_seconds
    closed,           \* ChessComClient.close() has been called
    cacheFile0,       \* the file at cache_path when the run started
    cacheFile,        \* the file at cache_path
    cacheWrites,      \* how often the run has written the file at cache_path
    etags,            \* the in-memory Store
    archives,         \* what get_archives returned
    since_filtered,   \* the sorted list after the since filter
    archive_urls,     \* the Selection Window
    selected_months,
    idx,              \* position of the for loop in archive_urls
    months_fetched,
    months_unchanged,
    total_games,
    files,            \* output files written, path -> body
    allow_304,        \* _request_with_retry: argument
    request_headers,  \* _request_with_retry: the If-None-Match header or None
    attempt,          \* _request_with_retry: local
    requests,         \* session.request calls made by the current call
    sleeps,           \* time.sleep calls the current call has returned from
    sleep_seconds,    \* _request_with_retry: local, as the last iteration set it
    response,         \* outcome of the latest session.request call
    fetch_result,     \* what get_month_archive returned for the current url
    error,            \* the exception that ended the run
    server,           \* what the API holds: the archive list and each month's ETag
    run,              \* which run of run_chesscom_ingest this is
    first_run         \* what the run before this one ended with

world == <<server, run, first_run>>
params == <<max_months, since, max_retries, backoff_base_seconds, cacheFile0>>
store == <<cacheFile, cacheWrites, etags>>
selection == <<archives, since_filtered, archive_urls, selected_months>>
progress == <<idx, months_fetched, months_unchanged, total_games, files>>
call == <<allow_304, request_headers, attempt, requests, sleeps, sleep_seconds,
          response>>
vars == <<pc, params, world, closed, store, selection, progress, call, fetch_result, error>>

NoResult == [status |-> 0, etag |-> None]

Init ==
    /\ pc = "start"
    /\ max_months \in 0..MaxArchives
    /\ since \in SinceValues
    /\ max_retries \in 0..MaxRetries
    /\ backoff_base_seconds = Seconds(1)
    /\ closed = FALSE
    /\ cacheFile0 \in CacheFiles
    /\ cacheFile = cacheFile0
    /\ cacheWrites = 0
    /\ etags = <<>>
    /\ archives = <<>>
    /\ since_filtered = <<>>
    /\ archive_urls = <<>>
    /\ selected_months = <<>>
    /\ idx = 0
    /\ months_fetched = <<>>
    /\ months_unchanged = <<>>
    /\ total_games = 0
    /\ files = <<>>
    /\ allow_304 = FALSE
    /\ request_headers = None
    /\ attempt = 0
    /\ requests = 0
    /\ sleeps = 0
    /\ sleep_seconds = Unset
    /\ response = NoResponse
    /\ fetch_result = NoResult
    /\ error = NoError
    /\ server = NoServer
    /\ run = 1
    /\ first_run = NoFirstRun

\* Raise with a handler around the loop that goes on to save the ETag cache
\* when a month could not be fetched.
RaisePersistsStore(e) ==
    /\ pc' = IF idx >= 1 THEN "save" ELSE "failed"
    /\ error' = e

\* Raise with a handler around get_archives that ends the run as if no
\* archive had been listed.
RaiseEndsRunQuietly(e) ==
    /\ pc' = IF idx = 0 THEN "done" ELSE "failed"
    /\ error' = e

\* An exception leaves run_chesscom_ingest: nothing in it catches, and
\* nothing runs on the way out.
Raise(e) ==
    /\ pc' = "failed"
    /\ error' = e

\* Entry of _request_with_retry (lines 193-194).
BeginRequest(headers, allow) ==
    /\ request_headers' = headers
    /\ allow_304' = allow
    /\ attempt' = 0
    /\ requests' = 0
    /\ sleeps' = 0
    /\ sleep_seconds' = Unset
    /\ response' = NoResponse

\* run_chesscom_ingest up to the index request (lines 54-59).
Start ==
    /\ pc = "start"
    /\ etags' = load_etags(cacheFile)
    /\ BeginRequest(None, FALSE)
    /\ pc' = "get_archives"
    /\ UNCHANGED <<params, world, closed, cacheFile, cacheWrites, selection, progress,
                   fetch_result, error>>

\* Classify with the retry test off by one: the last retry is never made.
ClassifyGivesUpEarly(r, attempt_, max_retries_, allow_304_) ==
    IF r.exc \in {"Timeout", "ConnectionError"} THEN
        IF attempt_ + 1 < max_retries_ THEN [do |-> "retry", err |-> NoError]
        ELSE [do |-> "raise", err |-> ChessComClientError("Network error after retries")]
    ELSE IF r.exc # "None" THEN
        [do |-> "raise", err |-> ChessComClientError("Request failed")]
    ELSE IF r.status = 304 /\ allow_304_ THEN [do |-> "return", err |-> NoError]
    ELSE IF r.status = 429 THEN
        IF attempt_ + 1 < max_retries_ THEN [do |-> "retry", err |-> NoError]
        ELSE [do |-> "raise", err |-> ChessComAPIError(429, "Rate limit exceeded after retries")]
    ELSE IF 500 <= r.status /\ r.status < 600 THEN
        IF attempt_ + 1 < max_retries_ THEN [do |-> "retry", err |-> NoError]
        ELSE [do |-> "raise", err |-> ChessComAPIError(r.status, "Server error after retries")]
    ELSE IF 400 <= r.status /\ r.status < 500 THEN
        [do |-> "raise", err |-> ChessComAPIError(r.status, "Client error")]
    ELSE IF 200 <= r.status /\ r.status < 300 THEN [do |-> "return", err |-> NoError]
    ELSE [do |-> "raise", err |-> ChessComAPIError(r.status, "Unexpected status code")]

\* Classify with the 4xx test ahead of the 5xx test and widened to retry:
\* every status from 400 on is treated as transient.
ClassifyRetriesClientErrors(r, attempt_, max_retries_, allow_304_) ==
    IF r.exc \in {"Timeout", "ConnectionError"} THEN
        IF attempt_ < max_retries_ THEN [do |-> "retry", err |-> NoError]
        ELSE [do |-> "raise", err |-> ChessComClientError("Network error after retries")]
    ELSE IF r.exc # "None" THEN
        [do |-> "raise", err |-> ChessComClientError("Request failed")]
    ELSE IF r.status = 304 /\ allow_304_ THEN [do |-> "return", err |-> NoError]
    ELSE IF r.status = 429 THEN
        IF attempt_ < max_retries_ THEN [do |-> "retry", err |-> NoError]
        ELSE [do |-> "raise", err |-> ChessComAPIError(429, "Rate limit exceeded after retries")]
    ELSE IF 400 <= r.status /\ r.status < 600 THEN
        IF attempt_ < max_retries_ THEN [do |-> "retry", err |-> NoError]
        ELSE [do |-> "raise", err |-> ChessComAPIError(r.status, "Server error after retries")]
    ELSE IF 200 <= r.status /\ r.status < 300 THEN [do |-> "return", err |-> NoError]
    ELSE [do |-> "raise", err |-> ChessComAPIError(r.status, "Unexpected status code")]

\* Classify with a 429 on the last attempt falling out of the loop to the
\* generic error of line 279.
ClassifyRateLimitGeneric(r, attempt_, max_retries_, allow_304_) ==
    IF r.exc \in {"Timeout", "ConnectionError"} THEN
        IF attempt_ < max_retries_ THEN [do |-> "retry", err |-> NoError]
        ELSE [do |-> "raise", err |-> ChessComClientError("Network error after retries")]
    ELSE IF r.exc # "None" THEN
        [do |-> "raise", err |-> ChessComClientError("Request failed")]
    ELSE IF r.status = 304 /\ allow_304_ THEN [do |-> "return", err |-> NoError]
    ELSE IF r.status = 429 THEN
        IF attempt_ < max_retries_ THEN [do |-> "retry", err |-> NoError]
        ELSE [do |-> "raise", err |-> ChessComClientError("Max retries exhausted")]
    ELSE IF 500 <= r.status /\ r.status < 600 THEN
        IF attempt_ < max_retries_ THEN [do |-> "retry", err |-> NoError]
        ELSE [do |-> "raise", err |-> ChessComAPIError(r.status, "Server error after retries")]
    ELSE IF 400 <= r.status /\ r.status < 500 THEN
        [do |-> "raise", err |-> ChessComAPIError(r.status, "Client error")]
    ELSE IF 200 <= r.status /\ r.status < 300 THEN [do |-> "return", err |-> NoError]
    ELSE [do |-> "raise", err |-> ChessComAPIError(r.status, "Unexpected status code")]

\* Classify reporting a 5xx on the last attempt as 503 whatever the status
\* of the last response.
ClassifyReportsFirstServerError(r, attempt_, max_retries_, allow_304_) ==
    IF r.exc \in {"Timeout", "ConnectionError"} THEN
        IF attempt_ < max_retries_ THEN [do |-> "retry", err |-> NoError]
        ELSE [do |-> "raise", err |-> ChessComClientError("Network error after retries")]
    ELSE IF r.exc # "None" THEN
        [do |-> "raise", err |-> ChessComClientError("Request failed")]
    ELSE IF r.status = 304 /\ allow_304_ THEN [do |-> "return", err |-> NoError]
    ELSE IF r.status = 429 THEN
        IF attempt_ < max_retries_ THEN [do |-> "retry", err |-> NoError]
        ELSE [do |-> "raise", err |-> ChessComAPIError(429, "Rate limit exceeded after retries")]
    ELSE IF 500 <= r.status /\ r.status < 600 THEN
        IF attempt_ < max_retries_ THEN [do |-> "retry", err |-> NoError]
        ELSE [do |-> "raise", err |-> ChessComAPIError(503, "Server error after retries")]
    ELSE IF 400 <= r.status /\ r.status < 500 THEN
        [do |-> "raise", err |-> ChessComAPIError(r.status, "Client error")]
    ELSE IF 200 <= r.status /\ r.status < 300 THEN [do |-> "return", err |-> NoError]
    ELSE [do |-> "raise", err |-> ChessComAPIError(r.status, "Unexpected status code")]

\* Classify without the retry of timeouts and connection errors.
ClassifyNetworkErrorsTerminal(r, attempt_, max_retries_, allow_304_) ==
    IF r.exc \in {"Timeout", "ConnectionError"} THEN
        [do |-> "raise", err |-> ChessComClientError("Network error after retries")]
    ELSE IF r.exc # "None" THEN
        [do |-> "raise", err |-> ChessComClientError("Request failed")]
    ELSE IF r.status = 304 /\ allow_304_ THEN [do |-> "return", err |-> NoError]
    ELSE IF r.status = 429 THEN
        IF attempt_ < max_retries_ THEN [do |-> "retry", err |-> NoError]
        ELSE [do |-> "raise", err |-> ChessComAPIError(429, "Rate limit exceeded after retries")]
    ELSE IF 500 <= r.status /\ r.status < 600 THEN
        IF attempt_ < max_retries_ THEN [do |-> "retry", err |-> NoError]
        ELSE [do |-> "raise", err |-> ChessComAPIError(r.status, "Server error after retries")]
    ELSE IF 400 <= r.status /\ r.status < 500 THEN
        [do |-> "raise", err |-> ChessComAPIError(r.status, "Client error")]
    ELSE IF 200 <= r.status /\ r.status < 300 THEN [do |-> "return", err |-> NoError]
    ELSE [do |-> "raise", err |-> ChessComAPIError(r.status, "Unexpected status code")]

\* Classify with every exception of the request handled as a timeout is.
ClassifyRetriesAllExceptions(r, attempt_, max_retries_, allow_304_) ==
    IF r.exc \in {"Timeout", "ConnectionError", "RequestException"} THEN
        IF attempt_ < max_retries_ THEN [do |-> "retry", err |-> NoError]
        ELSE [do |-> "raise", err |-> ChessComClientError("Network error after retries")]
    ELSE IF r.exc # "None" THEN
        [do |-> "raise", err |-> ChessComClientError("Request failed")]
    ELSE IF r.status = 304 /\ allow_304_ THEN [do |-> "return", err |-> NoError]
    ELSE IF r.status = 429 THEN
        IF attempt_ < max_retries_ THEN [do |-> "retry", err |-> NoError]
        ELSE [do |-> "raise", err |-> ChessComAPIError(429, "Rate limit exceeded after retries")]
    ELSE IF 500 <= r.status /\ r.status < 600 THEN
        IF attempt_ < max_retries_ THEN [do |-> "retry", err |-> NoError]
        ELSE [do |-> "raise", err |-> ChessComAPIError(r.status, "Server error after retries")]
    ELSE IF 400 <= r.status /\ r.status < 500 THEN
        [do |-> "raise", err |-> ChessComAPIError(r.status, "Client error")]
    ELSE IF 200 <= r.status /\ r.status < 300 THEN [do |-> "return", err |-> NoError]
    ELSE [do |-> "raise", err |-> ChessComAPIError(r.status, "Unexpected status code")]

\* Classify with a 429 retried once more than the budget allows: the sleep is
\* made after the last attempt and the loop then ends.
ClassifySleepsAfterLastAttempt(r, attempt_, max_retries_, allow_304_) ==
    IF r.exc \in {"Timeout", "ConnectionError"} THEN
        IF attempt_ < max_retries_ THEN [do |-> "retry", err |-> NoError]
        ELSE [do |-> "raise", err |-> ChessComClientError("Network error after retries")]
    ELSE IF r.exc # "None" THEN
        [do |-> "raise", err |-> ChessComClientError("Request failed")]
    ELSE IF r.status = 304 /\ allow_304_ THEN [do |-> "return", err |-> NoError]
    ELSE IF r.status = 429 THEN
        IF attempt_ <= max_retries_ THEN [do |-> "retry", err |-> NoError]
        ELSE [do |-> "raise", err |-> ChessComAPIError(429, "Rate limit exceeded after retries")]
    ELSE IF 500 < r.status /\ r.status < 600 THEN
        IF attempt_ < max_retries_ THEN [do |-> "retry", err |-> NoError]
        ELSE [do |-> "raise", err |-> ChessComAPIError(r.status, "Server error after retries")]
    ELSE IF 400 <= r.status /\ r.status < 500 THEN
        [do |-> "raise", err |-> ChessComAPIError(r.status, "Client error")]
    ELSE IF 200 <= r.status /\ r.status < 300 THEN [do |-> "return", err |-> NoError]
    ELSE [do |-> "raise", err |-> ChessComAPIError(r.status, "Unexpected status code")]

\* Classify with every status that is no error returned to the caller.
ClassifyReturnsOtherStatuses(r, attempt_, max_retries_, allow_304_) ==
    IF r.exc \in {"Timeout", "ConnectionError"} THEN
        IF attempt_ < max_retries_ THEN [do |-> "retry", err |-> NoError]
        ELSE [do |-> "raise", err |-> ChessComClientError("Network error after retries")]
    ELSE IF r.exc # "None" THEN
        [do |-> "raise", err |-> ChessComClientError("Request failed")]
    ELSE IF r.status = 304 /\ allow_304_ THEN [do |-> "return", err |-> NoError]
    ELSE IF r.status = 429 THEN
        IF attempt_ < max_retries_ THEN [do |-> "retry", err |-> NoError]
        ELSE [do |-> "raise", err |-> ChessComAPIError(429, "Rate limit exceeded after retries")]
    ELSE IF 500 <= r.status /\ r.status < 600 THEN
        IF attempt_ < max_retries_ THEN [do |-> "retry", err |-> NoError]
        ELSE [do |-> "raise", err |-> ChessComAPIError(r.status, "Server error after retries")]
    ELSE IF 400 <= r.status /\ r.status < 500 THEN
        [do |-> "raise", err |-> ChessComAPIError(r.status, "Client error")]
    ELSE IF 200 <= r.status /\ r.status < 300 THEN [do |-> "return", err |-> NoError]
    ELSE [do |-> "return", err |-> NoError]

\* What one iteration of the loop of _request_with_retry does with the
\* outcome r of session.request (lines 197-276).
Classify(r, attempt_, max_retries_, allow_304_) ==
    IF r.exc \in {"Timeout", "ConnectionError"} THEN
        IF attempt_ < max_retries_ THEN [do |-> "retry", err |-> NoError]
        ELSE [do |-> "raise", err |-> ChessComClientError("Network error after retries")]
    ELSE IF r.exc # "None" THEN
        [do |-> "raise", err |-> ChessComClientError("Request failed")]
    ELSE IF r.status = 304 /\ allow_304_ THEN [do |-> "return", err |-> NoError]
    ELSE IF r.status = 429 THEN
        IF attempt_ < max_retries_ THEN [do |-> "retry", err |-> NoError]
        ELSE [do |-> "raise", err |-> ChessComAPIError(429, "Rate limit exceeded after retries")]
    ELSE IF 500 <= r.status /\ r.status < 600 THEN
        IF attempt_ < max_retries_ THEN [do |-> "retry", err |-> NoError]
        ELSE [do |-> "raise", err |-> ChessComAPIError(r.status, "Server error after retries")]
    ELSE IF 400 <= r.status /\ r.status < 500 THEN
        [do |-> "raise", err |-> ChessComAPIError(r.status, "Client error")]
    ELSE IF 200 <= r.status /\ r.status < 300 THEN [do |-> "return", err |-> NoError]
    ELSE [do |-> "raise", err |-> ChessComAPIError(r.status, "Unexpected status code")]

\* BackoffDelay growing by a fixed step: base * 2 * attempt.
BackoffDelayLinear(base, attempt_) == base * 2 * attempt_

\* _calculate_backoff (lines 281-300), with random.random() = u / 4.
BackoffDelay(base, attempt_) == base * (2 ^ attempt_)

_calculate_backoff(base, attempt_, u) ==
    LET delay == BackoffDelay(base, attempt_)
        jitter == (delay * (2 * u - 4)) \div 16
    IN  delay + jitter

\* The value of the local sleep_seconds after the iteration that got
\* outcome r (lines 212-220, 235, 265); old is its value before.
SleepSeconds(r, attempt_, max_retries_, base, u, old) ==
    IF r.exc \in {"Timeout", "ConnectionError"} THEN
        IF attempt_ < max_retries_ THEN _calculate_backoff(base, attempt_, u) ELSE old
    ELSE IF r.exc # "None" THEN old
    ELSE IF r.status = 429 THEN
        IF TruthyStr(r.retry_after) /\ PyInt(r.retry_after).ok
        THEN Seconds(PyInt(r.retry_after).value)
        ELSE _calculate_backoff(base, attempt_, u)
    ELSE IF 500 <= r.status /\ r.status < 600 THEN
        IF attempt_ < max_retries_ THEN _calculate_backoff(base, attempt_, u) ELSE old
    ELSE old

\* One iteration of the while loop of _request_with_retry (lines 196-279).
RequestAttempt ==
    /\ pc \in {"get_archives", "get_month_archive"}
    /\ IF attempt > max_retries
       THEN /\ Raise(ChessComClientError("Max retries exhausted"))
            /\ UNCHANGED <<attempt, requests, sleeps, sleep_seconds, response>>
       ELSE \E r \in Outcomes(IF pc = "get_archives" THEN IndexBodies ELSE MonthBodies) :
              LET c == Classify(r, attempt, max_retries, allow_304) IN
              /\ requests' = requests + 1
              /\ response' = r
              \* every branch that sleeps assigns sleep_seconds first, so what an
              \* earlier iteration left in it is never read: only the assignment
              \* of this iteration is kept
              /\ sleep_seconds' \in
                    {SleepSeconds(r, attempt, max_retries, backoff_base_seconds, u,
                                  Unset) : u \in RandomQuarters}
              /\ CASE c.do = "retry" ->
                        IF sleep_seconds' < 0
                        THEN \* time.sleep raises on a negative duration
                             /\ Raise(BuiltinError("ValueError"))
                             /\ UNCHANGED <<sleeps, attempt>>
                        ELSE /\ sleeps' = sleeps + 1
                             /\ attempt' = attempt + 1
                             /\ UNCHANGED <<pc, error>>
                   [] c.do = "return" ->
                        /\ pc' = IF pc = "get_archives" THEN "archives_returned"
                                 ELSE "month_returned"
                        /\ UNCHANGED <<sleeps, attempt, error>>
                   [] c.do = "raise" ->
                        /\ Raise(c.err)
                        /\ UNCHANGED <<sleeps, attempt>>
    /\ UNCHANGED <<params, world, closed, store, selection, progress, allow_304,
                   request_headers, fetch_result>>

\* get_archives after its request returned (client lines 93-109), then the
\* selection of run_chesscom_ingest (lines 62-84).
ArchivesReturned ==
    /\ pc = "archives_returned"
    /\ LET data == response.body IN
       IF data.shape = "invalid" THEN
            /\ Raise(ChessComClientError("Invalid JSON response"))
            /\ UNCHANGED <<selection, idx>>
       ELSE IF data.shape # "object" \/ data.archives = "absent" THEN
            /\ Raise(ChessComClientError("Unexpected response format: missing 'archives' field"))
            /\ UNCHANGED <<selection, idx>>
       ELSE IF data.archives # "list" THEN
            /\ Raise(ChessComClientError("Unexpected response format: 'archives' is not a list"))
            /\ UNCHANGED <<selection, idx>>
       ELSE LET sorted == Sort(data.list)
                filtered == IF TruthyStr(since) THEN SinceFilter(sorted, since)
                            ELSE sorted
                window == SelectWindow(filtered, max_months)
                months == MonthsOf(window)
            IN  /\ archives' = data.list
                /\ since_filtered' = filtered
                /\ archive_urls' = window
                /\ selected_months' = months
                /\ IF \E i \in 1..Len(months) : months[i] = NoneStr
                   THEN \* ', '.join(selected_months) with a None in the list
                        /\ Raise(BuiltinError("TypeError"))
                        /\ UNCHANGED idx
                   ELSE /\ pc' = "loop"
                        /\ idx' = 1
                        /\ UNCHANGED error
    \* the call is over: its response and its locals are gone
    /\ response' = NoResponse
    /\ attempt' = 0
    /\ requests' = 0
    /\ sleeps' = 0
    /\ sleep_seconds' = Unset
    /\ UNCHANGED <<params, world, closed, store, months_fetched, months_unchanged,
                   total_games, files, allow_304, request_headers, fetch_result>>

\* Head of the for loop (lines 86-98, up to the request of get_month_archive,
\* client lines 142-147), or the end of the loop.
LoopNext ==
    /\ pc = "loop"
    /\ IF idx > Len(archive_urls)
       THEN /\ pc' = "save"
            /\ UNCHANGED <<idx, call, fetch_result>>
       ELSE LET url == archive_urls[idx]
                year_month == _extract_year_month(url)
                cached_etag == get_etag(etags, url)
            IN  IF ~TruthyStr(year_month)
                THEN /\ idx' = idx + 1
                     /\ UNCHANGED <<pc, call, fetch_result>>
                ELSE /\ BeginRequest(IF Truthy(cached_etag) THEN cached_etag ELSE None,
                                     TRUE)
                     /\ fetch_result' = NoResult
                     /\ pc' = "get_month_archive"
                     /\ UNCHANGED idx
    /\ UNCHANGED <<params, world, closed, store, selection, months_fetched,
                   months_unchanged, total_games, files, error>>

\* StoreAfterFetch with the entry of the URL dropped when the response
\* carries no ETag.
StoreClearedWithoutValidator(etags_, url, new_etag) ==
    IF Truthy(new_etag) THEN set_etag(etags_, url, new_etag)
    ELSE [u \in DOMAIN etags_ \ {url} |-> etags_[u]]

\* The ETag cache after a 200 (lines 116-117).
StoreAfterFetch(etags_, url, new_etag) ==
    IF Truthy(new_etag) THEN set_etag(etags_, url, new_etag) ELSE etags_

\* get_month_archive after its request returned (client lines 149-162), then
\* the branch of the for loop on its result (lines 100-119).
MonthReturned ==
    /\ pc = "month_returned"
    /\ LET url == archive_urls[idx]
           year_month == _extract_year_month(url)
           status_code == response.status
           new_etag == response.etag
           data == response.body
       IN
       IF status_code = 304 THEN
            /\ fetch_result' = [status |-> 304, etag |-> new_etag]
            /\ months_unchanged' = Append(months_unchanged, year_month)
            /\ idx' = idx + 1
            /\ pc' = "loop"
            /\ UNCHANGED <<months_fetched, total_games, files, etags, error>>
       ELSE IF data.shape \notin {"object", "array"} THEN
            /\ Raise(ChessComClientError("Invalid JSON response"))
            /\ UNCHANGED <<fetch_result, progress, etags>>
       ELSE IF status_code = 200 THEN
            /\ fetch_result' = [status |-> status_code, etag |-> new_etag]
            /\ IF data.shape # "object"
               THEN \* data.get on a value that is no dict
                    /\ Raise(BuiltinError("AttributeError"))
                    /\ UNCHANGED <<progress, etags>>
               ELSE \E written \in BOOLEAN :
                      IF ~written
                      THEN \* _write_json could not write
                           /\ Raise(BuiltinError("OSError"))
                           /\ UNCHANGED <<progress, etags>>
                      ELSE LET game_count == IF data.games < 0 THEN 0 ELSE data.games
                               output_path == _get_output_path(year_month)
                           IN  /\ files' = [p \in DOMAIN files \cup {output_path} |->
                                              IF p = output_path THEN data ELSE files[p]]
                               /\ months_fetched' = Append(months_fetched, year_month)
                               /\ total_games' = total_games + game_count
                               /\ etags' = StoreAfterFetch(etags, url, new_etag)
                               /\ idx' = idx + 1
                               /\ pc' = "loop"
                               /\ UNCHANGED <<months_unchanged, error>>
       ELSE \* "unexpected status"
            /\ fetch_result' = [status |-> status_code, etag |-> new_etag]
            /\ idx' = idx + 1
            /\ pc' = "loop"
            /\ UNCHANGED <<months_fetched, months_unchanged, total_games, files,
                           etags, error>>
    \* the call is over: its response and its locals are gone
    /\ response' = NoResponse
    /\ attempt' = 0
    /\ requests' = 0
    /\ sleeps' = 0
    /\ sleep_seconds' = Unset
    /\ UNCHANGED <<params, world, closed, cacheFile, cacheWrites, selection, allow_304,
                   request_headers>>

\* After the loop: save_etags, the summary, client.close() (lines 121-144).
SaveAndReturn ==
    /\ pc = "save"
    /\ \E saved \in BOOLEAN :
         IF saved
         THEN /\ cacheFile' = save_etags(cacheFile, etags)
              /\ cacheWrites' = cacheWrites + 1
              /\ closed' = TRUE
              /\ pc' = "done"
              /\ UNCHANGED error
         ELSE \* mkdir or open could not be done
              /\ Raise(BuiltinError("OSError"))
              /\ UNCHANGED <<cacheFile, cacheWrites, closed>>
    /\ UNCHANGED <<params, world, etags, selection, progress, call, fetch_result>>

\* The dict run_chesscom_ingest returns (lines 125-132).
Summary ==
    [months_selected |-> selected_months, months_fetched |-> months_fetched,
     months_unchanged |-> months_unchanged, total_games |-> total_games]

Next ==
    \/ Start
    \/ RequestAttempt
    \/ ArchivesReturned
    \/ LoopNext
    \/ MonthReturned
    \/ SaveAndReturn

Spec == Init /\ [][Next]_vars

\* ---- two runs against a server that answers every request -----------------
\* The server answers the index request with its list, a month request whose
\* If-None-Match is the month's ETag with 304, and any other month request
\* with 200, the ETag and the content.
IndexResponse(server_) ==
    [NoResponse EXCEPT !.status = 200,
                       !.body = [ObjectBody EXCEPT !.archives = "list",
                                                   !.list = server_.archives]]

MonthResponse(server_, url, if_none_match) ==
    IF if_none_match = server_.etag[url]
    THEN [NoResponse EXCEPT !.status = 304, !.etag = server_.etag[url]]
    ELSE [NoResponse EXCEPT !.status = 200, !.etag = server_.etag[url],
                            !.body = [ObjectBody EXCEPT !.games = 3]]

InitTwoRuns ==
    /\ pc = "start"
    /\ max_months \in 0..MaxArchives
    /\ since \in SinceValues
    /\ max_retries \in 0..MaxRetries
    /\ backoff_base_seconds = Seconds(1)
    /\ closed = FALSE
    /\ cacheFile0 \in CacheFiles
    /\ cacheFile = cacheFile0
    /\ cacheWrites = 0
    /\ etags = <<>>
    /\ archives = <<>>
    /\ since_filtered = <<>>
    /\ archive_urls = <<>>
    /\ selected_months = <<>>
    /\ idx = 0
    /\ months_fetched = <<>>
    /\ months_unchanged = <<>>
    /\ total_games = 0
    /\ files = <<>>
    /\ allow_304 = FALSE
    /\ request_headers = None
    /\ attempt = 0
    /\ requests = 0
    /\ sleeps = 0
    /\ sleep_seconds = Unset
    /\ response = NoResponse
    /\ fetch_result = NoResult
    /\ error = NoError
    /\ server \in Servers
    /\ run = 1
    /\ first_run = NoFirstRun

\* One iteration of the loop of _request_with_retry (lines 196-279) whose
\* request the server answers.
ServedAttempt ==
    /\ pc \in {"get_archives", "get_month_archive"}
    /\ LET r == IF pc = "get_archives" THEN IndexResponse(server)
                ELSE MonthResponse(server, archive_urls[idx], request_headers)
           c == Classify(r, attempt, max_retries, allow_304)
       IN  /\ requests' = requests + 1
           /\ response' = r
           /\ sleep_seconds' = SleepSeconds(r, attempt, max_retries,
                                            backoff_base_seconds, 0, Unset)
           /\ IF c.do = "return"
              THEN /\ pc' = IF pc = "get_archives" THEN "archives_returned"
                            ELSE "month_returned"
                   /\ UNCHANGED error
              ELSE \* no answer of this server is retried or refused
                   Raise(c.err)
    /\ UNCHANGED <<params, world, closed, store, selection, progress, allow_304,
                   request_headers, attempt, sleeps, fetch_result>>

\* run_chesscom_ingest is called again with the same arguments after it
\* returned; in between the server may have changed months, each changed
\* month getting a new ETag.  The files on disk stay.
NextRun ==
    /\ pc = "done"
    /\ run = 1
    /\ run' = 2
    /\ first_run' = [months_fetched |-> months_fetched,
                     months_unchanged |-> months_unchanged, etags |-> etags,
                     cacheFile |-> cacheFile, files |-> files, server |-> server]
    /\ \E changed \in SUBSET {UA, UB} :
         server' = [server EXCEPT !.etag = [u \in {UA, UB} |->
                       IF u \in changed THEN ChangedValidator ELSE server.etag[u]]]
    /\ pc' = "start"
    /\ closed' = FALSE
    /\ cacheFile0' = cacheFile
    /\ cacheWrites' = 0
    /\ etags' = <<>>
    /\ archives' = <<>>
    /\ since_filtered' = <<>>
    /\ archive_urls' = <<>>
    /\ selected_months' = <<>>
    /\ idx' = 0
    /\ months_fetched' = <<>>
    /\ months_unchanged' = <<>>
    /\ total_games' = 0
    /\ allow_304' = FALSE
    /\ request_headers' = None
    /\ attempt' = 0
    /\ requests' = 0
    /\ sleeps' = 0
    /\ sleep_seconds' = Unset
    /\ response' = NoResponse
    /\ fetch_result' = NoResult
    /\ UNCHANGED <<max_months, since, max_retries, backoff_base_seconds, cacheFile,
                   files, error>>

NextTwoRuns ==
    \/ Start
    \/ ServedAttempt
    \/ ArchivesReturned
    \/ LoopNext
    \/ MonthReturned
    \/ SaveAndReturn
    \/ NextRun

SpecTwoRuns == InitTwoRuns /\ [][NextTwoRuns]_vars

\* ---- the backoff of one call on its own -----------------------------------
\* A client built with any whole number of seconds as backoff_base_seconds
\* and a call of _request_with_retry in which every attempt ends in a retry
\* by backoff (a 5xx, a timeout or a connection error).
InitBackoff ==
    /\ pc = "backoff"
    /\ max_months = 0
    /\ since = NoneStr
    /\ max_retries = MaxBackoffRetries
    /\ backoff_base_seconds \in {Seconds(b) : b \in 0..MaxBaseSeconds}
    /\ closed = FALSE
    /\ cacheFile0 = MissingFile
    /\ cacheFile = cacheFile0
    /\ cacheWrites = 0
    /\ etags = <<>>
    /\ archives = <<>>
    /\ since_filtered = <<>>
    /\ archive_urls = <<>>
    /\ selected_months = <<>>
    /\ idx = 0
    /\ months_fetched = <<>>
    /\ months_unchanged = <<>>
    /\ total_games = 0
    /\ files = <<>>
    /\ allow_304 = FALSE
    /\ request_headers = None
    /\ attempt = 0
    /\ requests = 0
    /\ sleeps = 0
    /\ sleep_seconds = Unset
    /\ response = NoResponse
    /\ fetch_result = NoResult
    /\ error = NoError
    /\ server = NoServer
    /\ run = 1
    /\ first_run = NoFirstRun

\* One iteration that retries by backoff (lines 233-238, 263-267).
BackoffRetry ==
    /\ pc = "backoff"
    /\ attempt < max_retries
    /\ requests' = requests + 1
    /\ sleep_seconds' \in {_calculate_backoff(backoff_base_seconds, attempt, u) :
                              u \in RandomQuarters}
    /\ sleeps' = sleeps + 1
    /\ attempt' = attempt + 1
    /\ UNCHANGED <<pc, params, world, closed, store, selection, progress, allow_304,
                   request_headers, response, fetch_result, error>>

NextBackoff == BackoffRetry

SpecBackoff == InitBackoff /\ [][NextBackoff]_vars

\* ---- the ETag cache file on its own ----------------------------------------
\* The cache file holds any of CacheTexts; it is loaded, then a mapping of
\* strings is saved to it, once as in a run, and it is loaded again.
InitCache ==
    /\ pc = "cache_start"
    /\ max_months = 0
    /\ since = NoneStr
    /\ max_retries = 0
    /\ backoff_base_seconds = Seconds(1)
    /\ closed = FALSE
    /\ cacheFile0 \in CacheTexts
    /\ cacheFile = cacheFile0
    /\ cacheWrites = 0
    /\ etags = <<>>
    /\ archives = <<>>
    /\ since_filtered = <<>>
    /\ archive_urls = <<>>
    /\ selected_months = <<>>
    /\ idx = 0
    /\ months_fetched = <<>>
    /\ months_unchanged = <<>>
    /\ total_games = 0
    /\ files = <<>>
    /\ allow_304 = FALSE
    /\ request_headers = None
    /\ attempt = 0
    /\ requests = 0
    /\ sleeps = 0
    /\ sleep_seconds = Unset
    /\ response = NoResponse
    /\ fetch_result = NoResult
    /\ error = NoError
    /\ server = NoServer
    /\ run = 1
    /\ first_run = NoFirstRun

\* load_etags(path) on the text of the file (etag_cache.py lines 29-40);
\* etags is the dict it returns.
CacheLoad ==
    /\ pc \in {"cache_start", "cache_saved"}
    /\ IF cacheFile.shape = "missing" THEN
            /\ etags' = <<>>
            /\ pc' = "cache_loaded"
            /\ UNCHANGED error
       ELSE IF cacheFile.shape = "undecodable" THEN
            \* f.read() raises UnicodeDecodeError, a ValueError that is neither
            \* JSONDecodeError nor IOError
            /\ Raise(BuiltinError("UnicodeDecodeError"))
            /\ UNCHANGED etags
       ELSE /\ etags' = IF json_load(cacheFile).is_dict
                         THEN json_load(cacheFile).dict ELSE <<>>
            /\ pc' = "cache_loaded"
            /\ UNCHANGED error
    /\ UNCHANGED <<params, world, closed, cacheFile, cacheWrites, selection, progress,
                   call, fetch_result>>

\* save_etags(path, etags) for a dict of str to str (lines 57-62): the file
\* is opened with "w" and the dict is dumped into it.
CacheSave ==
    /\ pc = "cache_loaded"
    /\ cacheWrites = 0
    /\ \E m \in StringMaps : \E keys \in KeyOrders(m) :
         /\ etags' = m
         /\ cacheFile' = json_dump(m, keys)
    /\ cacheWrites' = cacheWrites + 1
    /\ pc' = "cache_saved"
    /\ UNCHANGED <<params, world, closed, selection, progress, call, fetch_result, error>>

NextCache ==
    \/ CacheLoad
    \/ CacheSave

SpecCache == InitCache /\ [][NextCache]_vars

\* ---- claims --------------------------------------------------------------
ExhaustionMessages ==
    {"Network error after retries", "Rate limit exceeded after retries",
     "Server error after retries", "Max retries exhausted"}

ClientErrorStatus(status) == 400 <= status /\ status < 500 /\ status # 429

Count(list, x) == Cardinality({i \in DOMAIN list : list[i] = x})

\* C1: one call of _request_with_retry never makes more than max_retries + 1
\* request attempts, and when it raises an exhaustion error it has made
\* exactly max_retries + 1 of them.
C1_RetryBudget ==
    /\ requests <= max_retries + 1
    /\ (pc = "failed" /\ error.msg \in ExhaustionMessages)
          => requests = max_retries + 1

\* A call that exhausted a budget of at least one retry.
C1_Witness ==
    /\ pc = "failed"
    /\ error.msg \in ExhaustionMessages
    /\ max_retries >= 1
    /\ sleeps = max_retries

\* C2: when the latest attempt received a 4xx status other than 429, the call
\* has failed with ChessComAPIError carrying that status, and it did so
\* without a sleep or an attempt after that response: every sleep and every
\* increment of the attempt counter belongs to an earlier attempt.
C2_ClientErrorIsTerminal ==
    (response.exc = "None" /\ ClientErrorStatus(response.status))
        => /\ pc = "failed"
           /\ error.type = "ChessComAPIError"
           /\ error.status = response.status
           /\ sleeps = requests - 1
           /\ attempt = requests - 1

\* A 404 on a retry, with a retry still left.
C2_Witness ==
    /\ response.status = 404
    /\ requests = 2
    /\ attempt < max_retries

\* C3: get_month_archive returns status 304 only for a request that carried
\* an If-None-Match header.  (Stated for runs with max_months >= 1, whose
\* Selection Window is the one C7 describes.)
C3_UnchangedOnlyWithValidator ==
    (max_months >= 1 /\ fetch_result.status = 304) => request_headers # None

\* C4: the step that folds a 304 result into the run appends the month to
\* months_unchanged, writes no output file and sets the Store entry of the
\* URL to the response's validator when it carries one (the Store is left
\* alone otherwise).  (Stated for runs with max_months >= 1 and requests that
\* carried a validator.)
C4_UnchangedUpdatesStore ==
    [][(max_months >= 1 /\ request_headers # None
          /\ pc = "month_returned" /\ response.status = 304)
         => LET url == archive_urls[idx] IN
            /\ months_unchanged' = Append(months_unchanged, _extract_year_month(url))
            /\ files' = files
            /\ etags' = IF Truthy(response.etag)
                        THEN set_etag(etags, url, response.etag)
                        ELSE etags]_vars

\* C5: a success response whose body is not a JSON object aborts only the
\* resource it belongs to: the loop goes on with the next selected resource.
\* (Stated for runs with max_months >= 1.)
C5_MalformedBodySkipsResource ==
    [][(max_months >= 1 /\ pc = "month_returned" /\ response.status # 304
          /\ response.body.shape # "object")
         => (pc' = "loop" /\ idx' = idx + 1)]_vars

\* C6: whenever run_chesscom_ingest has ended, by returning or by raising,
\* ChessComClient.close has been called.
C6_SessionReleased ==
    pc \in {"done", "failed"} => closed

\* C7: the Selection Window is the whole filtered, sorted list when that has
\* at most max_months entries, and otherwise its trailing max_months entries.
C7_SelectionWindow ==
    LET n == Len(since_filtered) IN
    IF n <= max_months
    THEN archive_urls = since_filtered
    ELSE /\ Len(archive_urls) = max_months
         /\ archive_urls = SubSeq(since_filtered, n - max_months + 1, n)

\* C8: a discovered reference without a month key does not fail the run and
\* is in none of months_selected, months_fetched and months_unchanged.
\* (Stated for runs with max_months >= 1.)
C8_UnparsableSkipped ==
    max_months >= 1 =>
    /\ error.type # "TypeError"
    /\ \A i \in DOMAIN selected_months : selected_months[i] # NoneStr
    /\ \A i \in DOMAIN months_fetched : months_fetched[i] # NoneStr
    /\ \A i \in DOMAIN months_unchanged : months_unchanged[i] # NoneStr

\* C9: with a since filter, the filtered list holds exactly the discovered
\* references whose month key parses and is not smaller than the filter, as
\* often as they were discovered and in ascending order, and the references
\* it drops raise no error.
C9_SinceFilterInclusive ==
    TruthyStr(since)
        => /\ \A u \in Urls :
                Count(since_filtered, u) =
                    IF /\ _extract_year_month(u) # NoneStr
                       /\ ~StrLess(_extract_year_month(u), since)
                    THEN Count(archives, u) ELSE 0
           /\ \A i \in 1..(Len(since_filtered) - 1) :
                ~StrLess(since_filtered[i + 1], since_filtered[i])
           /\ error.type # "TypeError"

\* An unsorted index of two references, one whose month key equals the
\* filter and is kept, and one that is dropped.
C9_Witness ==
    /\ TruthyStr(since)
    /\ pc = "loop"
    /\ Len(archives) = 2
    /\ archives[2] = UA
    /\ since_filtered = <<UB>>
    /\ _extract_year_month(UB) = since

\* C10: until the loop has ended the file at cache_path is not written; a
\* run that returns has written it exactly once, after the last selected
\* resource, with the in-memory Store; when nothing was fetched that is the
\* mapping load_etags returned.
C10_StorePersistedOnce ==
    /\ pc \notin {"done", "failed"}
          => (cacheWrites = 0 /\ cacheFile = cacheFile0)
    /\ pc = "done"
          => /\ cacheWrites = 1
             /\ idx = Len(archive_urls) + 1
             /\ cacheFile = ObjectFile(etags)
             /\ months_fetched = <<>>
                   => cacheFile.map = load_etags(cacheFile0)

\* A run that fetched one of two selected resources and stored its validator.
C10_Witness ==
    /\ pc = "done"
    /\ Len(archive_urls) = 2
    /\ Len(months_fetched) = 1
    /\ cacheFile # cacheFile0

ClientErrors == {"ChessComAPIError", "ChessComClientError"}

\* C11: when the fetch of a month fails with an error of the client, the run
\* is over with that error: the loop has not gone past the failing month,
\* the files written for earlier months are in place, and the ETag cache
\* file is what it was before the run, never written.
C11_FetchFailureAborts ==
    (idx >= 1 /\ error.type \in ClientErrors) =>
        /\ pc = "failed"
        /\ idx <= Len(archive_urls)
        /\ Len(months_fetched) + Len(months_unchanged) <= idx - 1
        /\ \A i \in 1..Len(months_fetched) :
              _get_output_path(months_fetched[i]) \in DOMAIN files
        /\ cacheFile = cacheFile0
        /\ cacheWrites = 0

\* The second month fails after the first was written and its new ETag was
\* put in the in-memory cache.
C11_Witness ==
    /\ pc = "failed"
    /\ error.type \in ClientErrors
    /\ idx = 2
    /\ Len(months_fetched) = 1
    /\ _get_output_path(months_fetched[1]) \in DOMAIN files
    /\ etags # load_etags(cacheFile0)
    /\ cacheFile = cacheFile0

\* C12: the step that handles a 200 for the selected month and goes on with
\* the loop has written the content to out_dir/chesscom/username/<month>.json,
\* appended the month to months_fetched, added the number of games of the
\* content (0 without a games field) to total_games, and, when the response
\* has an ETag, made it the cache entry of the URL; other entries stay.
C12_FreshIsRecorded ==
    [][(pc = "month_returned" /\ response.status = 200 /\ pc' = "loop") =>
         LET url == archive_urls[idx]
             month == _extract_year_month(url)
             path == <<"out_dir", "chesscom", "username", month, ".json">>
             games == response.body.games
         IN  /\ path \in DOMAIN files'
             /\ files'[path] = response.body
             /\ \A p \in DOMAIN files \ {path} :
                   p \in DOMAIN files' /\ files'[p] = files[p]
             /\ months_fetched' = Append(months_fetched, month)
             /\ months_unchanged' = months_unchanged
             /\ total_games' = total_games + (IF games < 0 THEN 0 ELSE games)
             /\ response.etag \notin {None, ""} =>
                   /\ url \in DOMAIN etags'
                   /\ etags'[url] = response.etag
             /\ \A u \in DOMAIN etags \ {url} :
                   u \in DOMAIN etags' /\ etags'[u] = etags[u]
    ]_vars

\* Both months were fetched fresh: the second file is beside the first, the
\* games of both are counted, and the new ETag of 2023/12 replaced the cached one.
C12_Witness ==
    /\ pc = "loop"
    /\ idx = 3
    /\ fetch_result.status = 200
    /\ Len(months_fetched) = 2
    /\ Cardinality(DOMAIN files) = 2
    /\ total_games = 6
    /\ UB \in DOMAIN load_etags(cacheFile0)
    /\ UB \in DOMAIN etags
    /\ etags[UB] # load_etags(cacheFile0)[UB]

\* C13: handling a returned response (200, another 2xx or 304) that has no
\* ETag leaves the whole in-memory ETag cache, and so the entry of the
\* fetched URL, as it was.
C13_NoValidatorKeepsEntry ==
    [][(pc = "month_returned" /\ response.etag = None) => etags' = etags]_vars

\* A month with a cached ETag was fetched fresh, the response had no ETag,
\* and the cached one is still there.
C13_Witness ==
    /\ pc = "loop"
    /\ idx >= 2
    /\ fetch_result = [status |-> 200, etag |-> None]
    /\ months_fetched # <<>>
    /\ archive_urls[idx - 1] \in DOMAIN etags
    /\ etags[archive_urls[idx - 1]] = "v1"

RequestPcs == {"get_archives", "get_month_archive"}

\* C14: a 429 received on the last permitted attempt (the request number
\* max_retries + 1 of the call) fails the call with ChessComAPIError of
\* status 429 and the rate-limit message, never with the generic error.
C14_RateLimitExhaustion ==
    (response.status = 429 /\ requests = max_retries + 1) =>
        /\ pc = "failed"
        /\ error = ChessComAPIError(429, "Rate limit exceeded after retries")
        /\ error.msg # "Max retries exhausted"
        /\ attempt = max_retries

\* A call that retried at least once and got a 429 on its last attempt.
C14_Witness ==
    /\ response.status = 429
    /\ max_retries >= 1
    /\ requests = max_retries + 1
    /\ pc = "failed"

\* C15: after a 5xx with attempts left the call has slept a backoff of the
\* attempt and goes on to the next attempt; after a 5xx on the last attempt
\* it has failed with ChessComAPIError of the status of that last response.
C15_ServerErrorRetried ==
    (response.exc = "None" /\ 500 <= response.status /\ response.status < 600) =>
        IF requests <= max_retries
        THEN /\ pc \in RequestPcs
             /\ error = NoError
             /\ attempt = requests
             /\ sleeps = requests
             /\ \E u \in RandomQuarters :
                   sleep_seconds = _calculate_backoff(backoff_base_seconds, attempt - 1, u)
        ELSE /\ pc = "failed"
             /\ error = ChessComAPIError(response.status, "Server error after retries")

\* A call out of attempts whose last response was a 500.
C15_Witness ==
    /\ pc = "failed"
    /\ response.status = 500
    /\ error.status = 500
    /\ max_retries >= 1
    /\ sleeps = max_retries

\* C16: after a timeout or connection error with attempts left the call has
\* slept a backoff of the attempt and goes on, counting the attempt on the
\* counter every retry uses; on the last attempt it fails with the network
\* error, a ChessComClientError that is no ChessComAPIError.
C16_NetworkErrorRetried ==
    (response.exc \in {"Timeout", "ConnectionError"}) =>
        IF requests <= max_retries
        THEN /\ pc \in RequestPcs
             /\ error = NoError
             /\ attempt = requests
             /\ sleeps = requests
             /\ \E u \in RandomQuarters :
                   sleep_seconds = _calculate_backoff(backoff_base_seconds, attempt - 1, u)
        ELSE /\ pc = "failed"
             /\ error = ChessComClientError("Network error after retries")
             /\ error.type = "ChessComClientError"

\* A call out of attempts whose last request timed out.
C16_Witness ==
    /\ pc = "failed"
    /\ response.exc = "Timeout"
    /\ max_retries >= 1
    /\ sleeps = max_retries

\* C17: any other exception of the request fails the call at once with the
\* client error: the attempt is not followed by a sleep or a further attempt.
C17_OtherExceptionTerminal ==
    (response.exc = "RequestException") =>
        /\ pc = "failed"
        /\ error = ChessComClientError("Request failed")
        /\ attempt = requests - 1
        /\ sleeps = requests - 1

\* The request failed so on the first attempt of a call that had retries left.
C17_Witness ==
    /\ response.exc = "RequestException"
    /\ pc = "failed"
    /\ requests = 1
    /\ max_retries >= 1
    /\ sleeps = 0

\* C20: when get_archives fails, by an error of its request or by a body
\* that is no JSON object with an archives list, the run is over with that
\* error: it returns no summary, has made no month request, has written no
\* output file and has not written the ETag cache file.
C20_IndexFailurePropagates ==
    (idx = 0 /\ error.type \in ClientErrors) =>
        /\ pc = "failed"
        /\ archive_urls = <<>>
        /\ allow_304 = FALSE
        /\ fetch_result = NoResult
        /\ months_fetched = <<>>
        /\ months_unchanged = <<>>
        /\ files = <<>>
        /\ cacheFile = cacheFile0
        /\ cacheWrites = 0

\* get_archives got a 200 whose body has no archives list.
C20_Witness ==
    /\ pc = "failed"
    /\ idx = 0
    /\ error.type = "ChessComClientError"
    /\ error.msg \in {"Unexpected response format: missing 'archives' field",
                      "Unexpected response format: 'archives' is not a list"}
    /\ files = <<>>

\* C18: after a 429 with retries left the call has slept and goes on to the
\* next attempt; the delay slept is the Retry-After value when the header is
\* there and int() parses it, and the backoff of the attempt otherwise.
C18_RetryAfterDelay ==
    (response.status = 429 /\ requests <= max_retries) =>
        /\ pc \in RequestPcs
        /\ error = NoError
        /\ attempt = requests
        /\ sleeps = requests
        /\ IF response.retry_after # NoneStr /\ PyInt(response.retry_after).ok
           THEN sleep_seconds = Seconds(PyInt(response.retry_after).value)
           ELSE \E u \in RandomQuarters :
                  sleep_seconds = _calculate_backoff(backoff_base_seconds, attempt - 1, u)

\* C19: the retry number k of a call (k = 0 for the first) sleeps a delay
\* whose part before jitter is base * 2^k, which for base > 0 is less than
\* that of retry k + 1, and the delay slept is within 0.75 and 1.25 times
\* base * 2^k.
C19_BackoffGrowsWithinJitter ==
    sleeps >= 1 =>
        LET k == sleeps - 1
            nominal == backoff_base_seconds * (2 ^ k)
        IN  /\ attempt = k + 1
            /\ BackoffDelay(backoff_base_seconds, k) = nominal
            /\ backoff_base_seconds > 0 =>
                  BackoffDelay(backoff_base_seconds, k) <
                      BackoffDelay(backoff_base_seconds, k + 1)
            /\ 3 * nominal <= 4 * sleep_seconds
            /\ 4 * sleep_seconds <= 5 * nominal

\* The third retry of a client with a base of two seconds slept the least
\* the jitter allows: six seconds for a delay of eight.
C19_Witness ==
    /\ pc = "backoff"
    /\ backoff_base_seconds = Seconds(2)
    /\ sleeps = 3
    /\ sleep_seconds = Seconds(6)

\* A file json.load reads as a dict whose values are all strings.
FlatStringMapping(text) ==
    /\ json_load(text).is_dict
    /\ \A i \in DOMAIN text.members : text.members[i].kind = "string"

\* C21: load_etags raises nothing, and for a file that is missing, is no
\* JSON, holds a JSON value that is no object, or holds an object with a
\* value that is no string, the dict it returns is empty.
C21_LoadNeverFails ==
    /\ pc # "failed"
    /\ (pc = "cache_loaded" /\ cacheWrites = 0 /\ ~FlatStringMapping(cacheFile0))
          => etags = <<>>

\* C23: load_etags of a file that save_etags has just written returns the
\* mapping that was saved, whatever the file held before: nothing of the
\* earlier content is in it.
C23_SaveLoadRoundTrip ==
    [][(pc = "cache_saved" /\ pc' = "cache_loaded") =>
         /\ etags' = etags
         /\ \A k \in DOMAIN etags' : k \in DOMAIN etags
    ]_vars

\* A mapping with a value made of a backslash and a quote was saved over a
\* file that had an entry under another key, and loaded again.
C23_Witness ==
    /\ pc = "cache_loaded"
    /\ cacheWrites >= 1
    /\ <<"w">> \in DOMAIN json_load(cacheFile0).dict
    /\ DOMAIN etags = {<<"u">>}
    /\ etags[<<"u">>] = <<"\\", "\"">>

\* C24: when the run ends with a summary, every fetch of the selection ended
\* in a 2xx or a 304, and each selected month is then in months_fetched or
\* months_unchanged once for each time it was selected, with its file
\* written when it is in months_fetched.
C24_NoSuccessDropped ==
    (pc = "done" /\ max_months >= 1) =>
        \A i \in DOMAIN selected_months :
            LET month == selected_months[i] IN
            /\ Count(months_fetched, month) + Count(months_unchanged, month)
                  = Count(selected_months, month)
            /\ Count(months_fetched, month) > 0
                  => _get_output_path(month) \in DOMAIN files

\* C25: in a call of _request_with_retry every sleep is followed by a
\* request: while the call goes on it has slept once per request made and
\* the next request is due, and when it has returned or raised it has
\* slept once less than it has made requests.
C25_SleepsBetweenAttempts ==
    /\ pc \in RequestPcs => (sleeps = requests /\ attempt <= max_retries)
    /\ (pc \in {"archives_returned", "month_returned"} \/ (pc = "failed" /\ requests >= 1))
          => sleeps = requests - 1

\* A call whose first request was retried and whose second got a 200.
C25_Witness ==
    /\ pc = "month_returned"
    /\ response.status = 200
    /\ requests = 2
    /\ sleeps = 1

\* C26: after the cache is loaded, a step changes or adds the cache entry of
\* a URL only when it handles the response to the fetch of that URL, and
\* the entry then is the ETag of that response; all other entries stay.
C26_ValidatorUnderItsUrl ==
    [][pc # "start" =>
         /\ \A u \in DOMAIN etags : u \in DOMAIN etags'
         /\ \A u \in DOMAIN etags' :
               (u \notin DOMAIN etags \/ etags'[u] # etags[u]) =>
                   /\ pc = "month_returned"
                   /\ u = archive_urls[idx]
                   /\ response.etag # None
                   /\ etags'[u] = response.etag
    ]_vars

\* The run fetched 2023/11 alone and stored its ETag; the loaded entry of
\* 2023/12, which was not fetched, is as loaded.
C26_Witness ==
    /\ pc = "done"
    /\ archive_urls = <<UA>>
    /\ UA \in DOMAIN etags
    /\ UB \in DOMAIN etags
    /\ etags[UA] = "v2"
    /\ etags[UB] = "v1"
    /\ load_etags(cacheFile0) = [u \in {UB} |-> "v1"]

RECURSIVE IsSubsequence(_, _)
IsSubsequence(sub, list) ==
    IF sub = <<>> THEN TRUE
    ELSE IF list = <<>> THEN FALSE
    ELSE IF Head(sub) = Head(list) THEN IsSubsequence(Tail(sub), Tail(list))
    ELSE IsSubsequence(sub, Tail(list))

\* The months of the selection the loop is done with.
ProcessedMonths == SubSeq(selected_months, 1, IF idx = 0 THEN 0 ELSE idx - 1)

\* C27: the selection is in ascending order and the loop works through it
\* one entry at a time: while entry idx is being fetched, the entries before
\* it are done with (recorded, and written when fetched) and no later one is
\* touched; months_fetched and months_unchanged list their months in the
\* order of the selection.
C27_SequentialInOrder ==
    /\ \A i, j \in DOMAIN archive_urls :
          i < j => ~StrLess(archive_urls[j], archive_urls[i])
    /\ pc \in {"get_month_archive", "month_returned"} => idx \in DOMAIN archive_urls
    /\ Len(months_fetched) + Len(months_unchanged) <= Len(ProcessedMonths)
    /\ IsSubsequence(months_fetched, ProcessedMonths)
    /\ IsSubsequence(months_unchanged, ProcessedMonths)
    /\ \A i \in DOMAIN months_fetched :
          _get_output_path(months_fetched[i]) \in DOMAIN files
    /\ Cardinality(DOMAIN files) <= Len(months_fetched)

\* The index listed 2023/12 before 2023/11; the run fetched 2023/11 first
\* and is now fetching 2023/12.
C27_Witness ==
    /\ pc = "get_month_archive"
    /\ archives = <<UB, UA>>
    /\ archive_urls = <<UA, UB>>
    /\ idx = 2
    /\ Len(months_fetched) = 1
    /\ months_fetched[1] = _extract_year_month(UA)
    /\ months_unchanged = <<>>

\* A status _request_with_retry has no branch for: below 200, or a 3xx that
\* is not a 304 the caller allows.
OtherStatus(status, allow_304_) ==
    \/ 100 <= status /\ status < 200
    \/ 300 <= status /\ status < 400 /\ ~(status = 304 /\ allow_304_)

\* C28: a response with a 1xx or 3xx status, a 304 to a request that does
\* not allow it included, fails the call with ChessComAPIError of that
\* status, and the attempt is followed by no sleep and no other attempt.
C28_OtherStatusTerminal ==
    (response.exc = "None" /\ OtherStatus(response.status, allow_304)) =>
        /\ pc = "failed"
        /\ error = ChessComAPIError(response.status, "Unexpected status code")
        /\ attempt = requests - 1
        /\ sleeps = requests - 1

\* The index request, which does not allow a 304, got one after a retry,
\* with a retry still left.
C28_Witness ==
    /\ pc = "failed"
    /\ idx = 0
    /\ response.status = 304
    /\ error.status = 304
    /\ requests = 2
    /\ max_retries = 2

Elements(list) == {list[i] : i \in DOMAIN list}

\* C22: at the end of a second run with the same arguments, when the server
\* is as it was, every month the first run fetched is in months_unchanged,
\* nothing was fetched or written, and the cache, in memory and in the
\* file, is what the first run left; and every selected month whose ETag
\* the server changed in between is in months_fetched.
C22_SecondRunUnchanged ==
    (run = 2 /\ pc = "done") =>
        /\ server = first_run.server =>
              /\ Elements(first_run.months_fetched) \subseteq Elements(months_unchanged)
              /\ months_fetched = <<>>
              /\ files = first_run.files
              /\ etags = first_run.etags
              /\ cacheFile = first_run.cacheFile
        /\ \A i \in DOMAIN archive_urls :
              server.etag[archive_urls[i]] # first_run.server.etag[archive_urls[i]]
                  => _extract_year_month(archive_urls[i]) \in Elements(months_fetched)

\* The first run fetched two months; the second, against the same server,
\* found both unchanged.
C22_Witness ==
    /\ run = 2
    /\ pc = "done"
    /\ server = first_run.server
    /\ Len(first_run.months_fetched) = 2
    /\ Len(months_unchanged) = 2
    /\ Cardinality(DOMAIN files) = 2

====
